---- MODULE Spec2Model ----
(***************************************************************************)
(* s3sync: manifest-based three-way synchronisation of a local directory   *)
(* with an S3 bucket.                                                      *)
(*                                                                         *)
(* Two specifications are defined over one set of variables:               *)
(*   SpecCompute  the pure function sync.ComputeSyncActions applied to     *)
(*                three manifests drawn from bounded sets;                 *)
(*   Spec         the push / pull runs of cmd/s3sync (performPush,         *)
(*                performPull) over a local directory, a bucket and the    *)
(*                manifest file persisted under <root>/.s3sync.            *)
(***************************************************************************)
EXTENDS Integers, Sequences, FiniteSets, TLC

VARIABLES
    localManifest,      \* *Manifest: the local inventory of the current call / run
    remoteManifest,     \* *Manifest: the remote inventory of the current call / run
    lastKnownManifest,  \* *Manifest: the last known inventory of the current call / run
    actions,            \* []SyncAction returned by ComputeSyncActions
    panicked,           \* TRUE when the call ended in a nil pointer dereference
    pc,                 \* position of the caller / of the push or pull run
    fs,                 \* the files under the local root: relative path -> file
    dirs,               \* the directories that exist, the local root and below
    bucket,             \* the objects of the bucket: key -> object
    now,                \* the clock
    cmd,                \* "push" or "pull": the command of the current run
    dryRun,             \* the --dry-run flag of the current run
    done,               \* indices into actions of the transfers executed
    result,             \* what the last run returned
    removed,            \* history: recorded paths the user removed locally
    edits,              \* history: number of changes made outside a run
    runs,               \* history: number of runs started
    buckets,            \* the buckets of the account: name -> settings
    creating            \* the name create-bucket was called with

computeVars == <<localManifest, remoteManifest, lastKnownManifest, actions, panicked>>
runVars == <<cmd, dryRun, done, result>>
worldVars == <<fs, dirs, bucket, now>>
historyVars == <<removed, edits, runs>>

bucketVars == <<buckets, creating>>

vars == <<computeVars, pc, runVars, worldVars, historyVars, bucketVars>>

-----------------------------------------------------------------------------
(* Bounds of the model.                                                    *)

\* modification times of the records handed to ComputeSyncActions: 1..MaxModTime
MaxModTime == 2

\* changes made to the local directory and to the bucket outside the runs
MaxEdits == 2

\* push and pull runs started
MaxRuns == 2

\* the number of edits and runs together in a behaviour
MaxOps == 4

-----------------------------------------------------------------------------
(* Paths, file records and manifests.                                      *)

\* A path is a sequence of names; a name is its first character and the rest.
PathA == << <<"a", "">> >>
PathB == << <<"b", "">> >>

Paths == {PathA, PathB}

\* filepath.Join
Join(dir, rel) == dir \o rel

\* filepath.Base: the last name of a path
Base(path) == path[Len(path)]

\* the directory a push or pull is run on
RootDir == << <<"r", "oot">> >>

\* the bucket a push or pull is run on
BucketName == "my-bucket"

\* the settings of a bucket that create-bucket is to switch on
Settings(versioning, encryption) ==
    [Versioning |-> versioning, Encryption |-> encryption]

\* filepath.Dir of a relative path
Dir(path) == SubSeq(path, 1, Len(path) - 1)

\* os.MkdirAll of the directory rel below the root: the root and every
\* directory on the way exist afterwards
MkdirAll(existing, rel) ==
    existing \cup {Join(RootDir, SubSeq(rel, 1, k)) : k \in 0..Len(rel)}

\* What a file or an object holds: bytes, or the JSON document of a manifest
\* (its fields; Bytes is then unused).
NoDoc == [LastSync |-> 0, FilesNull |-> TRUE, Files |-> <<>>, Bucket |-> "",
          Prefix |-> ""]

BytesContent(bytes) == [Json |-> FALSE, Bytes |-> bytes, Doc |-> NoDoc]

\* a checksum string: the digest algorithm and what was digested.  Distinct
\* contents have distinct digests; a SHA-256 digest (64 hex digits) is never
\* equal to an ETag (an MD5 digest, 32 hex digits).
Digest(alg, content) == [Alg |-> alg, Of |-> content]

\* the empty string as a checksum
NoChecksum == Digest("", BytesContent(<<>>))

\* fileutils.FileInfo
FileInfo(path, size, modTime, checksum, relativePath) ==
    [Path |-> path, Size |-> size, ModTime |-> modTime,
     Checksum |-> checksum, RelativePath |-> relativePath]

\* the zero value a failed Go map lookup yields
ZeroFileInfo == FileInfo(<<>>, 0, 0, NoChecksum, <<>>)

\* sync.Manifest behind a pointer; IsNil marks the nil pointer, FilesNil a nil map
Manifest(files, bucketName) ==
    [IsNil |-> FALSE, FilesNil |-> FALSE, LastSync |-> 0, Files |-> files,
     Bucket |-> bucketName, Prefix |-> ""]

NilManifest ==
    [IsNil |-> TRUE, FilesNil |-> TRUE, LastSync |-> 0, Files |-> <<>>,
     Bucket |-> "", Prefix |-> ""]

\* a manifest whose Files map was never made (the zero value of the struct)
NilFilesManifest ==
    [IsNil |-> FALSE, FilesNil |-> TRUE, LastSync |-> 0, Files |-> <<>>,
     Bucket |-> "", Prefix |-> ""]

-----------------------------------------------------------------------------
(* sync.ComputeSyncActions                                                 *)

SyncOpUpload == "upload"
SyncOpDownload == "download"
SyncOpDelete == "delete"
SyncOpSkip == "skip"

SyncAction(operation, file, relativePath, reason) ==
    [Operation |-> operation, File |-> file, RelativePath |-> relativePath,
     Reason |-> reason]

\* Go map lookup: v, ok := m[k]
Has(files, k) == k \in DOMAIN files
Lookup(files, k) == IF k \in DOMAIN files THEN files[k] ELSE ZeroFileInfo

\* mutant: an equal time counts as later
After_OrEqual(t, u) == t >= u

\* time.Time.After
After(t, u) == t > u

\* mutant: a remote deletion is mirrored instead of answered by an upload
LocalOnlyAction_MirrorDeletion(relativePath, localFile, wasKnown) ==
    IF ~wasKnown
    THEN SyncAction(SyncOpUpload, localFile, relativePath, "new local file")
    ELSE SyncAction(SyncOpSkip, localFile, relativePath,
                    "deleted remotely, exists locally")

\* LocalOnlyAction answering a remote deletion with the delete operation
LocalOnlyAction_DeletesLocal(relativePath, localFile, wasKnown) ==
    IF ~wasKnown
    THEN SyncAction(SyncOpUpload, localFile, relativePath, "new local file")
    ELSE SyncAction(SyncOpDelete, localFile, relativePath,
                    "deleted remotely, exists locally")

\* the file exists locally but not remotely
LocalOnlyAction(relativePath, localFile, wasKnown) ==
    IF ~wasKnown
    THEN SyncAction(SyncOpUpload, localFile, relativePath, "new local file")
    ELSE SyncAction(SyncOpUpload, localFile, relativePath,
                    "deleted remotely, exists locally")

\* mutant: the comparison of the modification times is reversed
ConflictAction_OlderWins(relativePath, localFile, remoteFile) ==
    IF After(remoteFile.ModTime, localFile.ModTime)
    THEN SyncAction(SyncOpUpload, localFile, relativePath,
                    "local file newer (conflict resolution)")
    ELSE SyncAction(SyncOpDownload, remoteFile, relativePath,
                    "remote file newer (conflict resolution)")

\* both sides changed since the last known state: the modification time decides
ConflictAction(relativePath, localFile, remoteFile) ==
    IF After(localFile.ModTime, remoteFile.ModTime)
    THEN SyncAction(SyncOpUpload, localFile, relativePath,
                    "local file newer (conflict resolution)")
    ELSE SyncAction(SyncOpDownload, remoteFile, relativePath,
                    "remote file newer (conflict resolution)")

\* mutant: the last known checksum is not consulted
KnownDifferAction_TimeOnly(relativePath, localFile, remoteFile, lastKnownFile) ==
    IF After(localFile.ModTime, remoteFile.ModTime)
    THEN SyncAction(SyncOpUpload, localFile, relativePath,
                    "local file newer (conflict resolution)")
    ELSE SyncAction(SyncOpDownload, remoteFile, relativePath,
                    "remote file newer (conflict resolution)")

\* mutant: a change of the local side alone is resolved by the times
KnownDifferAction_LocalChangeConflicts(relativePath, localFile, remoteFile, lastKnownFile) ==
    LET localChanged == localFile.Checksum # lastKnownFile.Checksum
        remoteChanged == remoteFile.Checksum # lastKnownFile.Checksum
    IN  IF ~localChanged /\ remoteChanged
        THEN SyncAction(SyncOpDownload, remoteFile, relativePath,
                        "remote file modified")
        ELSE ConflictAction(relativePath, localFile, remoteFile)

\* the checksums differ and the path is in the last known state
KnownDifferAction(relativePath, localFile, remoteFile, lastKnownFile) ==
    LET localChanged == localFile.Checksum # lastKnownFile.Checksum
        remoteChanged == remoteFile.Checksum # lastKnownFile.Checksum
    IN  IF localChanged /\ ~remoteChanged
        THEN SyncAction(SyncOpUpload, localFile, relativePath, "local file modified")
        ELSE IF ~localChanged /\ remoteChanged
        THEN SyncAction(SyncOpDownload, remoteFile, relativePath,
                        "remote file modified")
        ELSE ConflictAction(relativePath, localFile, remoteFile)

\* the checksums differ and the path is not in the last known state
UnknownDifferAction(relativePath, localFile, remoteFile) ==
    IF After(localFile.ModTime, remoteFile.ModTime)
    THEN SyncAction(SyncOpUpload, localFile, relativePath, "local file newer")
    ELSE SyncAction(SyncOpDownload, remoteFile, relativePath, "remote file newer")

\* mutant: files count as identical only when their modification times agree too
BothSidesAction_TimeFirst(relativePath, localFile, remoteFile, wasKnown, lastKnownFile) ==
    IF localFile.Checksum # remoteFile.Checksum
       \/ localFile.ModTime # remoteFile.ModTime
    THEN IF wasKnown
         THEN KnownDifferAction(relativePath, localFile, remoteFile, lastKnownFile)
         ELSE UnknownDifferAction(relativePath, localFile, remoteFile)
    ELSE SyncAction(SyncOpSkip, localFile, relativePath, "files identical")

\* the file exists both locally and remotely
BothSidesAction(relativePath, localFile, remoteFile, wasKnown, lastKnownFile) ==
    IF localFile.Checksum # remoteFile.Checksum
    THEN IF wasKnown
         THEN KnownDifferAction(relativePath, localFile, remoteFile, lastKnownFile)
         ELSE UnknownDifferAction(relativePath, localFile, remoteFile)
    ELSE SyncAction(SyncOpSkip, localFile, relativePath, "files identical")

\* the body of the first loop, for one key of localFiles
LocalLoopBody(relativePath, localFiles, remoteFiles, lastKnownFiles) ==
    LET localFile == localFiles[relativePath]
        remoteFile == Lookup(remoteFiles, relativePath)
        remoteExists == Has(remoteFiles, relativePath)
        lastKnownFile == Lookup(lastKnownFiles, relativePath)
        wasKnown == Has(lastKnownFiles, relativePath)
    IN  IF ~remoteExists
        THEN <<LocalOnlyAction(relativePath, localFile, wasKnown)>>
        ELSE <<BothSidesAction(relativePath, localFile, remoteFile, wasKnown,
                               lastKnownFile)>>

\* mutant: the last known state is not consulted for a remote-only file
RemoteOnlyAction_AlwaysDownload(relativePath, remoteFile, wasKnown) ==
    SyncAction(SyncOpDownload, remoteFile, relativePath, "new remote file")

\* mutant: the test of the last known state is inverted
RemoteOnlyAction_KnownInverted(relativePath, remoteFile, wasKnown) ==
    IF ~wasKnown
    THEN SyncAction(SyncOpSkip, remoteFile, relativePath, "deleted locally")
    ELSE SyncAction(SyncOpDownload, remoteFile, relativePath, "new remote file")

\* the file exists remotely but not locally
RemoteOnlyAction(relativePath, remoteFile, wasKnown) ==
    IF wasKnown
    THEN SyncAction(SyncOpSkip, remoteFile, relativePath, "deleted locally")
    ELSE SyncAction(SyncOpDownload, remoteFile, relativePath, "new remote file")

\* mutant: the second loop does not test for the local file
RemoteLoopBody_NoLocalCheck(relativePath, localFiles, remoteFiles, lastKnownFiles) ==
    <<RemoteOnlyAction(relativePath, remoteFiles[relativePath],
                       Has(lastKnownFiles, relativePath))>>

\* the body of the second loop, for one key of remoteFiles
RemoteLoopBody(relativePath, localFiles, remoteFiles, lastKnownFiles) ==
    IF ~Has(localFiles, relativePath)
    THEN <<RemoteOnlyAction(relativePath, remoteFiles[relativePath],
                            Has(lastKnownFiles, relativePath))>>
    ELSE <<>>

\* the orders in which a Go range statement may visit the keys of a map
RangeOrders(files) ==
    {o \in [1..Cardinality(DOMAIN files) -> DOMAIN files] :
        \A i, j \in DOMAIN o : i # j => o[i] # o[j]}

RECURSIVE LocalLoop(_, _, _, _)
LocalLoop(order, localFiles, remoteFiles, lastKnownFiles) ==
    IF order = <<>> THEN <<>>
    ELSE LocalLoopBody(Head(order), localFiles, remoteFiles, lastKnownFiles)
         \o LocalLoop(Tail(order), localFiles, remoteFiles, lastKnownFiles)

RECURSIVE RemoteLoop(_, _, _, _)
RemoteLoop(order, localFiles, remoteFiles, lastKnownFiles) ==
    IF order = <<>> THEN <<>>
    ELSE RemoteLoopBody(Head(order), localFiles, remoteFiles, lastKnownFiles)
         \o RemoteLoop(Tail(order), localFiles, remoteFiles, lastKnownFiles)

\* the three field reads localManifest.Files, remoteManifest.Files,
\* lastKnownManifest.Files dereference their pointers
ComputePanics(lm, rm, km) == lm.IsNil \/ rm.IsNil \/ km.IsNil

\* ComputeSyncActions for manifests that are not nil pointers, visiting the
\* keys of the two maps in the given orders
ComputeSyncActions(lm, rm, km, localOrder, remoteOrder) ==
    LocalLoop(localOrder, lm.Files, rm.Files, km.Files)
    \o RemoteLoop(remoteOrder, lm.Files, rm.Files, km.Files)

-----------------------------------------------------------------------------
(* SpecCompute: ComputeSyncActions called on arbitrary manifests.          *)

\* A path has at most three records (local, remote, last known), so three
\* checksums give every pattern of equal and differing checksums.
Sums == {Digest("fp", BytesContent(<<1>>)), Digest("fp", BytesContent(<<2>>)),
         Digest("fp", BytesContent(<<3>>))}
ModTimes == 1..MaxModTime

\* the Path field: the walked path for a local record, the key for a remote one
SidePath(side, p) == IF side = "remote" THEN p ELSE Join(RootDir, p)

\* the inventories over Paths whose records carry the given modification times
Inventories(side, times) ==
    UNION { { [p \in S |-> FileInfo(SidePath(side, p), 1, st[p][2], st[p][1], p)] :
                st \in [S -> Sums \X times] } : S \in SUBSET Paths }

ManifestArgs(side, times) ==
    {NilManifest, NilFilesManifest}
    \cup {Manifest(f, "bucket") : f \in Inventories(side, times)}

InitCompute ==
    /\ localManifest \in ManifestArgs("local", ModTimes)
    /\ remoteManifest \in ManifestArgs("remote", ModTimes)
    \* ModTime of a last known record is never read: it is drawn from the
    \* earliest and the latest instant only
    /\ lastKnownManifest \in ManifestArgs("local", {1, MaxModTime})
    /\ actions = <<>>
    /\ panicked = FALSE
    /\ pc = "call"
    /\ fs = <<>> /\ dirs = {} /\ bucket = <<>> /\ now = 0
    /\ cmd = "none" /\ dryRun = FALSE /\ done = {} /\ result = "none"
    /\ removed = {} /\ edits = 0 /\ runs = 0
    /\ buckets = (BucketName :> Settings(TRUE, TRUE)) /\ creating = ""

\* the call returns its action list
ComputeReturn ==
    /\ pc = "call"
    /\ ~ComputePanics(localManifest, remoteManifest, lastKnownManifest)
    /\ \E lo \in RangeOrders(localManifest.Files),
          ro \in RangeOrders(remoteManifest.Files) :
          actions' = ComputeSyncActions(localManifest, remoteManifest,
                                        lastKnownManifest, lo, ro)
    /\ pc' = "returned"
    /\ UNCHANGED <<localManifest, remoteManifest, lastKnownManifest, panicked>>
    /\ UNCHANGED <<runVars, worldVars, historyVars, bucketVars>>

\* the call dereferences a nil manifest pointer
ComputePanic ==
    /\ pc = "call"
    /\ ComputePanics(localManifest, remoteManifest, lastKnownManifest)
    /\ panicked' = TRUE
    /\ pc' = "returned"
    /\ UNCHANGED <<localManifest, remoteManifest, lastKnownManifest, actions>>
    /\ UNCHANGED <<runVars, worldVars, historyVars, bucketVars>>

NextCompute == ComputeReturn \/ ComputePanic

SpecCompute == InitCompute /\ [][NextCompute]_vars

-----------------------------------------------------------------------------
(* The local directory, the bucket and the manifest file.                  *)

\* <root>/.s3sync/manifest.json, relative to the root
S3SyncDir == <<".", "s3sync">>
ManifestFileName == <<"m", "anifest.json">>
ManifestRel == <<S3SyncDir, ManifestFileName>>

\* the paths at which files are written and removed outside the runs
UserPaths == {PathA, PathB}

\* what those files hold
Contents == {BytesContent(<<1>>), BytesContent(<<2, 2>>)}

\* a file of the local directory, an object of the bucket
File(content, modTime) == [Content |-> content, ModTime |-> modTime]
Object(content, lastModified) == [Content |-> content, LastModified |-> lastModified]

\* the length in bytes; the length of a JSON document is abstracted to a
\* number that grows with its entries
Size(content) ==
    IF content.Json THEN 2 + Cardinality(DOMAIN content.Doc.Files)
    ELSE Len(content.Bytes)

\* calculateFileChecksum: the SHA-256 digest of the content, in hex
Sha256(content) == Digest("sha256", content)

\* the ETag S3 lists for an object put by PutObject: the MD5 digest of the
\* content, in hex
ETag(content) == Digest("md5", content)

\* filepath.Base(path)[0] == '.'
IsHidden(path) == Base(path)[1] = "."

\* fileutils.ScanDirectoryWithInfo, keyed by RelativePath as BuildLocalManifest
\* keys it
ScanDirectoryWithInfo(files) ==
    [p \in {q \in DOMAIN files : ~IsHidden(Join(RootDir, q))} |->
        FileInfo(Join(RootDir, p), Size(files[p].Content), files[p].ModTime,
                 Sha256(files[p].Content), p)]

\* ManifestManager.BuildLocalManifest at time t
BuildLocalManifest(files, t) ==
    [Manifest(ScanDirectoryWithInfo(files), "") EXCEPT !.LastSync = t]

\* json.MarshalIndent of a manifest; a nil Files map is written as null
Marshal(m) ==
    [Json |-> TRUE, Bytes |-> <<>>,
     Doc |-> [LastSync |-> m.LastSync, FilesNull |-> m.FilesNil, Files |-> m.Files,
              Bucket |-> m.Bucket, Prefix |-> m.Prefix]]

\* json.Unmarshal into a Manifest: an error for anything but a JSON document
Unmarshal(content) ==
    IF ~content.Json THEN [Err |-> TRUE, Manifest |-> NilManifest]
    ELSE [Err |-> FALSE,
          Manifest |-> [IsNil |-> FALSE, FilesNil |-> content.Doc.FilesNull,
                        LastSync |-> content.Doc.LastSync,
                        Files |-> content.Doc.Files,
                        Bucket |-> content.Doc.Bucket,
                        Prefix |-> content.Doc.Prefix]]

\* LoadManifest returning no manifest, and no error, when there is no file
LoadManifest_MissingIsNil(files) ==
    IF ManifestRel \notin DOMAIN files
    THEN [Err |-> FALSE, Manifest |-> NilManifest]
    ELSE LET parsed == Unmarshal(files[ManifestRel].Content)
         IN  IF parsed.Err THEN parsed
             ELSE [Err |-> FALSE,
                   Manifest |-> [parsed.Manifest EXCEPT !.FilesNil = FALSE]]

\* ManifestManager.LoadManifest: (manifest, error)
LoadManifest(files) ==
    IF ManifestRel \notin DOMAIN files
    THEN [Err |-> FALSE, Manifest |-> Manifest(<<>>, "")]
    ELSE LET parsed == Unmarshal(files[ManifestRel].Content)
         IN  IF parsed.Err THEN parsed
             ELSE [Err |-> FALSE,
                   Manifest |-> [parsed.Manifest EXCEPT !.FilesNil = FALSE]]

\* f with key k set to value v
Put(f, k, v) == [x \in DOMAIN f \cup {k} |-> IF x = k THEN v ELSE f[x]]

\* f without key k
Drop(f, k) == [x \in DOMAIN f \ {k} |-> f[x]]

\* SaveManifest keeping the entries of the manifest already on disk
SaveManifest_KeepsPrior(files, m, t) ==
    LET prior == LoadManifest(files).Manifest.Files
        merged == [p \in DOMAIN prior \cup DOMAIN m.Files |->
                      IF p \in DOMAIN m.Files THEN m.Files[p] ELSE prior[p]]
    IN  Put(files, ManifestRel,
            File(Marshal([m EXCEPT !.LastSync = t, !.Files = merged]), t))

\* ManifestManager.SaveManifest at time t: the local directory afterwards
SaveManifest(files, m, t) ==
    Put(files, ManifestRel, File(Marshal([m EXCEPT !.LastSync = t]), t))

\* Client.ListObjects with an empty prefix, keyed by RelativePath as
\* performPush and performPull key it
ListObjects(objects) ==
    [k \in DOMAIN objects |->
        FileInfo(k, Size(objects[k].Content), objects[k].LastModified,
                 ETag(objects[k].Content), k)]

\* the remote manifest performPush and performPull build from the listing
RemoteManifest(objects) == Manifest(ListObjects(objects), BucketName)

\* Client.UploadFile at time t: the bucket afterwards
UploadFile(objects, files, s3Key, t) ==
    Put(objects, s3Key, Object(files[s3Key].Content, t))

\* Client.DownloadFile at time t: the local directory afterwards
DownloadFile(files, objects, s3Key, t) ==
    Put(files, s3Key, File(objects[s3Key].Content, t))

\* Client.DownloadFile when io.Copy fails: os.Create has truncated the file
DownloadTruncated(files, s3Key, t) ==
    Put(files, s3Key, File(BytesContent(<<>>), t))

-----------------------------------------------------------------------------
(* Spec: push and pull runs, and the changes made between them.            *)

Init ==
    /\ localManifest = NilManifest
    /\ remoteManifest = NilManifest
    /\ lastKnownManifest = NilManifest
    /\ actions = <<>>
    /\ panicked = FALSE
    /\ pc = "idle"
    /\ fs = <<>> /\ dirs = {} /\ bucket = <<>> /\ now = 0
    /\ cmd = "none" /\ dryRun = FALSE /\ done = {} /\ result = "none"
    /\ removed = {} /\ edits = 0 /\ runs = 0
    /\ buckets = (BucketName :> Settings(TRUE, TRUE)) /\ creating = ""

\* no run is in progress
AtRest == pc \in {"idle", "done"}

\* the process of the last run is gone, and its variables with it
ForgetRun ==
    /\ pc' = "idle"
    /\ localManifest' = NilManifest
    /\ remoteManifest' = NilManifest
    /\ lastKnownManifest' = NilManifest
    /\ actions' = <<>>
    /\ cmd' = "none" /\ dryRun' = FALSE /\ done' = {} /\ result' = "none"
    /\ UNCHANGED <<panicked, bucketVars>>

\* the path is recorded in the persisted manifest
Recorded(p) ==
    /\ ~LoadManifest(fs).Err
    /\ p \in DOMAIN LoadManifest(fs).Manifest.Files

\* the user writes a file
LocalWrite ==
    /\ AtRest /\ edits < MaxEdits /\ edits + runs < MaxOps
    /\ \E p \in UserPaths, c \in Contents :
        /\ p \in DOMAIN fs => fs[p].Content # c
        /\ fs' = Put(fs, p, File(c, now + 1))
        /\ dirs' = MkdirAll(dirs, Dir(p))
        /\ removed' = removed \ {p}
    /\ now' = now + 1
    /\ edits' = edits + 1
    /\ ForgetRun
    /\ UNCHANGED <<bucket, runs>>

\* the user removes a file
LocalRemove ==
    /\ AtRest /\ edits < MaxEdits /\ edits + runs < MaxOps
    /\ \E p \in UserPaths \cap DOMAIN fs :
        /\ fs' = Drop(fs, p)
        /\ removed' = IF Recorded(p) /\ p \in DOMAIN bucket
                      THEN removed \cup {p} ELSE removed
    /\ edits' = edits + 1
    /\ ForgetRun
    /\ UNCHANGED <<dirs, bucket, now, runs>>

\* the manifest another root pushed to the same bucket saves: its file,
\* uploaded like any other by the push after the one that saved it
ForeignManifest == Marshal(Manifest(<<>>, BucketName))

\* what another writer may put: a user file, or the manifest of its own root
PutChoices ==
    (UserPaths \X Contents) \cup {<<ManifestRel, ForeignManifest>>}

\* another writer puts an object into the bucket
RemotePut ==
    /\ AtRest /\ edits < MaxEdits /\ edits + runs < MaxOps
    /\ \E kc \in PutChoices :
        /\ kc[1] \in DOMAIN bucket => bucket[kc[1]].Content # kc[2]
        /\ bucket' = Put(bucket, kc[1], Object(kc[2], now + 1))
    /\ now' = now + 1
    /\ edits' = edits + 1
    /\ ForgetRun
    /\ UNCHANGED <<fs, dirs, removed, runs>>

\* another writer deletes an object of the bucket
RemoteDelete ==
    /\ AtRest /\ edits < MaxEdits /\ edits + runs < MaxOps
    /\ \E k \in UserPaths \cap DOMAIN bucket :
        /\ bucket' = Drop(bucket, k)
        /\ removed' = removed \ {k}
    /\ edits' = edits + 1
    /\ ForgetRun
    /\ UNCHANGED <<fs, dirs, now, runs>>

\* mutant: both commands execute the uploads
TransferOp_AlwaysUpload(c) == SyncOpUpload

\* the operation a run executes: uploads for push, downloads for pull
TransferOp(c) == IF c = "push" THEN SyncOpUpload ELSE SyncOpDownload

\* the indices of the actions the run executes
Transfers(acts, c) == {j \in DOMAIN acts : acts[j].Operation = TransferOp(c)}

\* The order of the action list is the order in which two range statements
\* visited two maps, which Go leaves open: any order of the first loop's actions,
\* followed by any order of the second loop's.  The list is kept in one such
\* order and the order in which the transfer loop meets the transfers is
\* chosen as the loop proceeds: any transfer of the first loop not yet
\* executed, then any of the second loop.
AnOrder(files) == CHOOSE o \in RangeOrders(files) : TRUE

NextTransfers(acts, c, executed, firstLoopLen) ==
    LET pending == Transfers(acts, c) \ executed
        first == {j \in pending : j <= firstLoopLen}
    IN  IF first # {} THEN first ELSE pending

\* The clock: a change outside a run takes a new instant; the transfers of a
\* run happen at one instant after everything before the run, and its save
\* at a later one.  (Modification times are only compared between the two
\* records of one path, and a run writes a path at most once before the save.)

\* EarlyError without the check of the manifest load
EarlyError_LoadIgnored(bucketErr, loadErr, scanErr, listErr) ==
    IF bucketErr THEN "error checking bucket"
    ELSE IF scanErr THEN "error scanning local directory"
    ELSE IF listErr THEN "error listing remote objects"
    ELSE "none"

\* The checks of performPush / performPull before the action list, in the
\* order of the code; the error returned is that of the first one that fails.
EarlyError(bucketErr, loadErr, scanErr, listErr) ==
    IF bucketErr THEN "error checking bucket"
    ELSE IF loadErr THEN "error loading manifest"
    ELSE IF scanErr THEN "error scanning local directory"
    ELSE IF listErr THEN "error listing remote objects"
    ELSE "none"

EarlyErrors ==
    {"error checking bucket", "error creating local directory",
     "error loading manifest", "error scanning local directory",
     "error listing remote objects"}

\* BucketExists answers false: the run ends with "bucket does not exist"
NoBucket == BucketName \notin DOMAIN buckets

\* ScanDirectoryWithInfo finds no root directory; performPull has created it
\* by then
NoRoot(c) == c = "push" /\ RootDir \notin dirs

\* performPull: the root directory is made right after the bucket check
AfterEnsureDir(c, existing) ==
    IF c = "pull" THEN MkdirAll(existing, <<>>) ELSE existing

\* AfterCount without the return of the dry run
AfterCount_DryRunTransfers(dry, n) ==
    IF n = 0 THEN "up to date" ELSE "running"

\* After the count of the n transfers of the list: a dry run returns, a run
\* with nothing to transfer returns, any other run enters the transfer loop.
AfterCount(dry, n) ==
    IF dry THEN "dry-run"
    ELSE IF n = 0 THEN "up to date"
    ELSE "running"

\* performPush / performPull up to the transfer loop: load the manifest, scan
\* the directory, list the bucket, compute and count the actions
BeginRun(c, dry) ==
    /\ AtRest /\ runs < MaxRuns /\ edits + runs < MaxOps
    /\ EarlyError(NoBucket, LoadManifest(fs).Err, NoRoot(c), FALSE) = "none"
    /\ LET lm == [BuildLocalManifest(fs, now) EXCEPT
                    !.Bucket = IF c = "push" THEN BucketName ELSE ""]
           rm == RemoteManifest(bucket)
           km == LoadManifest(fs).Manifest
           acts == ComputeSyncActions(lm, rm, km, AnOrder(lm.Files),
                                      AnOrder(rm.Files))
       IN  /\ localManifest' = lm
           /\ remoteManifest' = rm
           /\ lastKnownManifest' = km
           /\ actions' = acts
           /\ result' = AfterCount(dry, Cardinality(Transfers(acts, c)))
           /\ pc' = IF result' = "running" THEN "transfer" ELSE "done"
    /\ cmd' = c /\ dryRun' = dry /\ done' = {}
    /\ now' = now + 1
    /\ runs' = runs + 1
    /\ dirs' = AfterEnsureDir(c, dirs)
    /\ UNCHANGED <<panicked, fs, bucket, removed, edits, bucketVars>>

PushStart == \E dry \in BOOLEAN : BeginRun("push", dry)

PullStart == \E dry \in BOOLEAN : BeginRun("pull", dry)

\* the run returns an error before computing the actions: the bucket check,
\* the manifest load (always, when the file does not parse), the scan or the
\* listing failed
RunFailsEarly ==
    /\ AtRest /\ runs < MaxRuns /\ edits + runs < MaxOps
    /\ \E c \in {"push", "pull"}, dry \in BOOLEAN,
          bucketErr, mkdirErr, readErr, scanErr, listErr \in BOOLEAN :
        LET noBucket == bucketErr \/ NoBucket
            noDir == ~noBucket /\ c = "pull" /\ mkdirErr
            e == IF noDir THEN "error creating local directory"
                 ELSE EarlyError(noBucket, readErr \/ LoadManifest(fs).Err,
                                 scanErr \/ NoRoot(c), listErr)
        IN  /\ e # "none" /\ result' = e
            /\ cmd' = c /\ dryRun' = dry
            /\ dirs' = IF noBucket \/ noDir THEN dirs
                       ELSE AfterEnsureDir(c, dirs)
    /\ localManifest' = NilManifest
    /\ remoteManifest' = NilManifest
    /\ lastKnownManifest' = NilManifest
    /\ actions' = <<>>
    /\ done' = {}
    /\ pc' = "done"
    /\ runs' = runs + 1
    /\ UNCHANGED <<panicked, fs, bucket, now, removed, edits, bucketVars>>

\* the transfers the loop may meet next
Ready == NextTransfers(actions, cmd, done, Cardinality(DOMAIN localManifest.Files))

\* after the transfer at index j: on to the next one, or to the save
Advance(j) ==
    /\ done' = done \cup {j}
    /\ pc' = IF Transfers(actions, cmd) \ (done \cup {j}) = {}
             THEN "save" ELSE "transfer"
    /\ UNCHANGED result

\* the transfer loop of performPush reaches an upload, which succeeds
UploadOk ==
    /\ pc = "transfer" /\ cmd = "push"
    /\ \E j \in Ready :
        /\ bucket' = UploadFile(bucket, fs, actions[j].RelativePath, now)
        /\ Advance(j)
    /\ UNCHANGED <<computeVars, cmd, dryRun, fs, dirs, now, historyVars, bucketVars>>

\* the transfer loop of performPush reaches an upload, which fails
UploadFails ==
    /\ pc = "transfer" /\ cmd = "push"
    /\ pc' = "done" /\ result' = "transfer failed"
    /\ UNCHANGED <<computeVars, cmd, dryRun, done, worldVars, historyVars, bucketVars>>

\* the transfer loop of performPull reaches a download, which succeeds
DownloadOk ==
    /\ pc = "transfer" /\ cmd = "pull"
    /\ \E j \in Ready :
        /\ fs' = DownloadFile(fs, bucket, actions[j].RelativePath, now)
        /\ dirs' = MkdirAll(dirs, Dir(actions[j].RelativePath))
        /\ Advance(j)
    /\ UNCHANGED <<computeVars, cmd, dryRun, bucket, now, historyVars, bucketVars>>

\* the transfer loop of performPull reaches a download, which fails: the
\* directory of the file cannot be made, or it is made and GetObject or
\* os.Create fails, or io.Copy fails on the truncated file
DownloadFails ==
    /\ pc = "transfer" /\ cmd = "pull"
    /\ \E j \in Ready :
        \/ UNCHANGED <<fs, dirs>>
        \/ /\ dirs' = MkdirAll(dirs, Dir(actions[j].RelativePath))
           /\ \/ UNCHANGED fs
              \/ fs' = DownloadTruncated(fs, actions[j].RelativePath, now)
    /\ pc' = "done" /\ result' = "transfer failed"
    /\ UNCHANGED <<computeVars, cmd, dryRun, done, bucket, now, historyVars, bucketVars>>

\* the manifest the run saves: the local one for push, the remote one for pull
ManifestToSave ==
    IF cmd = "push" THEN localManifest
    ELSE [remoteManifest EXCEPT !.Bucket = BucketName]

\* SaveManifest succeeds and the run returns
SaveOk ==
    /\ pc = "save"
    /\ fs' = SaveManifest(fs, ManifestToSave, now + 1)
    /\ dirs' = MkdirAll(dirs, Dir(ManifestRel))
    /\ now' = now + 1
    /\ pc' = "done" /\ result' = "synced"
    /\ UNCHANGED <<computeVars, cmd, dryRun, done, bucket, historyVars, bucketVars>>

\* SaveManifest fails before it writes and the run returns the error: the
\* directory of the manifest cannot be made, or it is made and the file
\* cannot be opened
SaveFails ==
    /\ pc = "save"
    /\ dirs' \in {dirs, MkdirAll(dirs, Dir(ManifestRel))}
    /\ pc' = "done" /\ result' = "save failed"
    /\ UNCHANGED <<computeVars, cmd, dryRun, done, fs, bucket, now, historyVars, bucketVars>>

\* os.WriteFile opens the manifest with O_TRUNC and then writes it: what is
\* on disk when the process stops in between, nothing or a beginning of the
\* document
PartialWrites == {BytesContent(<<>>), BytesContent(<<0>>)}

\* the process is terminated inside the os.WriteFile of SaveManifest
SaveCrash ==
    /\ pc = "save"
    /\ \E partial \in PartialWrites :
        fs' = Put(fs, ManifestRel, File(partial, now + 1))
    /\ dirs' = MkdirAll(dirs, Dir(ManifestRel))
    /\ now' = now + 1
    /\ pc' = "done" /\ result' = "crashed"
    /\ UNCHANGED <<computeVars, cmd, dryRun, done, bucket, historyVars, bucketVars>>

Next ==
    \/ LocalWrite
    \/ LocalRemove
    \/ RemotePut
    \/ RemoteDelete
    \/ PushStart
    \/ PullStart
    \/ RunFailsEarly
    \/ UploadOk
    \/ UploadFails
    \/ DownloadOk
    \/ DownloadFails
    \/ SaveOk
    \/ SaveFails
    \/ SaveCrash

Spec == Init /\ [][Next]_vars

-----------------------------------------------------------------------------
(* Properties of ComputeSyncActions, checked under SpecCompute.            *)

\* the call has returned an action list
Returned == pc = "returned" /\ ~panicked

LocalFiles == localManifest.Files
RemoteFiles == remoteManifest.Files
LastKnownFiles == lastKnownManifest.Files

\* the positions of the action list that decide path p
ActionsOf(p) == {i \in DOMAIN actions : actions[i].RelativePath = p}

\* the action list decides p by exactly this one action
Decided(p, operation, file, reason) ==
    /\ Cardinality(ActionsOf(p)) = 1
    /\ \A i \in ActionsOf(p) : actions[i] = SyncAction(operation, file, p, reason)

OnlyRemote(p) == p \in DOMAIN RemoteFiles /\ p \notin DOMAIN LocalFiles
OnlyLocal(p) == p \in DOMAIN LocalFiles /\ p \notin DOMAIN RemoteFiles
OnBothSides(p) == p \in DOMAIN LocalFiles /\ p \in DOMAIN RemoteFiles
Known(p) == p \in DOMAIN LastKnownFiles

\* C1: a path in the remote inventory and in last_known but absent from the
\* local inventory is decided by the single action skip "deleted locally",
\* never download, whatever the checksums and modification times are.
C1_DeletionRespect ==
    Returned =>
        \A p \in Paths :
            (OnlyRemote(p) /\ Known(p)) =>
                Decided(p, SyncOpSkip, RemoteFiles[p], "deleted locally")

\* C1 witness: a locally deleted path whose remote record differs from the
\* last known one in checksum and in modification time was decided.
C1_Witness ==
    /\ Returned
    /\ \E p \in Paths :
        /\ OnlyRemote(p) /\ Known(p)
        /\ RemoteFiles[p].Checksum # LastKnownFiles[p].Checksum
        /\ RemoteFiles[p].ModTime > LastKnownFiles[p].ModTime

\* C3: a path in the local inventory and in last_known but absent from the
\* remote inventory is decided by upload of the local record, reason
\* "deleted remotely, exists locally"; it is never skipped or dropped.
C3_DeletionResurrection ==
    Returned =>
        \A p \in Paths :
            (OnlyLocal(p) /\ Known(p)) =>
                Decided(p, SyncOpUpload, LocalFiles[p],
                        "deleted remotely, exists locally")

\* C3 witness: a remotely deleted path that is unchanged locally was decided.
C3_Witness ==
    /\ Returned
    /\ \E p \in Paths :
        /\ OnlyLocal(p) /\ Known(p)
        /\ LocalFiles[p].Checksum = LastKnownFiles[p].Checksum

\* C4: a path present on exactly one side and absent from last_known is
\* transferred to the other side: upload "new local file" when it is only
\* local, download "new remote file" when it is only remote.
C4_NewFileTransferred ==
    Returned =>
        \A p \in Paths :
            /\ (OnlyLocal(p) /\ ~Known(p)) =>
                    Decided(p, SyncOpUpload, LocalFiles[p], "new local file")
            /\ (OnlyRemote(p) /\ ~Known(p)) =>
                    Decided(p, SyncOpDownload, RemoteFiles[p], "new remote file")

\* C4 witness: one call decided a new local file and a new remote file.
C4_Witness ==
    /\ Returned
    /\ \E p, q \in Paths :
        /\ OnlyLocal(p) /\ ~Known(p)
        /\ OnlyRemote(q) /\ ~Known(q)

\* C5: a path present on both sides with equal checksums is decided by skip
\* "files identical", whatever the two modification times are and however
\* the path appears in last_known.
C5_IdenticalSkipped ==
    Returned =>
        \A p \in Paths :
            (OnBothSides(p) /\ LocalFiles[p].Checksum = RemoteFiles[p].Checksum) =>
                Decided(p, SyncOpSkip, LocalFiles[p], "files identical")

\* C5 witness: identical files with different modification times, recorded
\* in last_known with another checksum, were decided.
C5_Witness ==
    /\ Returned
    /\ \E p \in Paths :
        /\ OnBothSides(p) /\ Known(p)
        /\ LocalFiles[p].Checksum = RemoteFiles[p].Checksum
        /\ LocalFiles[p].ModTime # RemoteFiles[p].ModTime
        /\ LastKnownFiles[p].Checksum # LocalFiles[p].Checksum

\* C6: for a path on both sides with differing checksums and in last_known,
\* when exactly one side differs from the last known checksum the action
\* copies from that side, whatever the modification times are: upload
\* "local file modified" or download "remote file modified".
C6_OneSideChanged ==
    Returned =>
        \A p \in Paths :
            (OnBothSides(p) /\ Known(p)
             /\ LocalFiles[p].Checksum # RemoteFiles[p].Checksum) =>
                /\ RemoteFiles[p].Checksum = LastKnownFiles[p].Checksum =>
                        Decided(p, SyncOpUpload, LocalFiles[p], "local file modified")
                /\ LocalFiles[p].Checksum = LastKnownFiles[p].Checksum =>
                        Decided(p, SyncOpDownload, RemoteFiles[p],
                                "remote file modified")

\* C6 witness: a path changed only locally whose remote record is the later
\* one, and a path changed only remotely whose local record is the later one.
C6_Witness ==
    /\ Returned
    /\ \E p, q \in Paths :
        /\ OnBothSides(p) /\ Known(p)
        /\ RemoteFiles[p].Checksum = LastKnownFiles[p].Checksum
        /\ LocalFiles[p].Checksum # LastKnownFiles[p].Checksum
        /\ RemoteFiles[p].ModTime > LocalFiles[p].ModTime
        /\ OnBothSides(q) /\ Known(q)
        /\ LocalFiles[q].Checksum = LastKnownFiles[q].Checksum
        /\ RemoteFiles[q].Checksum # LastKnownFiles[q].Checksum
        /\ LocalFiles[q].ModTime > RemoteFiles[q].ModTime

\* both sides of p changed: the checksums differ from each other and from
\* the last known checksum, or the path is absent from last_known
BothChanged(p) ==
    /\ OnBothSides(p)
    /\ LocalFiles[p].Checksum # RemoteFiles[p].Checksum
    /\ Known(p) =>
        /\ LocalFiles[p].Checksum # LastKnownFiles[p].Checksum
        /\ RemoteFiles[p].Checksum # LastKnownFiles[p].Checksum

\* the operation of the single action that decides p is op, on record file
DecidedOp(p, operation, file) ==
    /\ Cardinality(ActionsOf(p)) = 1
    /\ \A i \in ActionsOf(p) :
        actions[i].Operation = operation /\ actions[i].File = file

\* C7: when both sides of a path changed, the action follows the side with
\* the strictly later modification time: upload when local is later, download
\* when remote is later; for a path in last_known the reason carries the
\* "(conflict resolution)" suffix.
C7_NewerWins ==
    Returned =>
        \A p \in Paths :
            BothChanged(p) =>
                /\ LocalFiles[p].ModTime > RemoteFiles[p].ModTime =>
                    /\ DecidedOp(p, SyncOpUpload, LocalFiles[p])
                    /\ Known(p) =>
                        Decided(p, SyncOpUpload, LocalFiles[p],
                                "local file newer (conflict resolution)")
                /\ RemoteFiles[p].ModTime > LocalFiles[p].ModTime =>
                    /\ DecidedOp(p, SyncOpDownload, RemoteFiles[p])
                    /\ Known(p) =>
                        Decided(p, SyncOpDownload, RemoteFiles[p],
                                "remote file newer (conflict resolution)")

\* C7 witness: a known path changed on both sides with the local record
\* later, and another one with the remote record later.
C7_Witness ==
    /\ Returned
    /\ \E p, q \in Paths :
        /\ BothChanged(p) /\ Known(p)
        /\ LocalFiles[p].ModTime > RemoteFiles[p].ModTime
        /\ BothChanged(q) /\ Known(q)
        /\ RemoteFiles[q].ModTime > LocalFiles[q].ModTime

\* C8 as stated: exactly one action for every path in the union of the key
\* sets of the local, remote and last_known inventories, and none for any
\* other path.
C8_OneActionPerPathOfThree ==
    Returned =>
        /\ \A p \in DOMAIN LocalFiles \cup DOMAIN RemoteFiles \cup DOMAIN LastKnownFiles :
            Cardinality(ActionsOf(p)) = 1
        /\ \A i \in DOMAIN actions :
            actions[i].RelativePath \in
                DOMAIN LocalFiles \cup DOMAIN RemoteFiles \cup DOMAIN LastKnownFiles

\* C8 amended: exactly one action for every path in the union of the key
\* sets of the local and remote inventories, and none for any other path; a
\* path that is only in last_known gets no action.
C8_OneActionPerPresentPath ==
    Returned =>
        /\ \A p \in DOMAIN LocalFiles \cup DOMAIN RemoteFiles :
            Cardinality(ActionsOf(p)) = 1
        /\ \A i \in DOMAIN actions :
            actions[i].RelativePath \in DOMAIN LocalFiles \cup DOMAIN RemoteFiles
        /\ Len(actions) = Cardinality(DOMAIN LocalFiles \cup DOMAIN RemoteFiles)

\* C8 witness: a list was returned for a path on both sides, a path on one
\* side and a last known inventory holding both.
C8_Witness ==
    /\ Returned
    /\ \E p, q \in Paths :
        /\ p # q
        /\ OnBothSides(p) /\ Known(p)
        /\ OnlyRemote(q) /\ Known(q)

\* a nil manifest read as an empty one
AsEmpty(m) == IF m.IsNil \/ m.FilesNil THEN Manifest(<<>>, m.Bucket) ELSE m

\* C9 as stated: the call cannot fail; a nil or absent inventory argument is
\* treated as an empty inventory and the corresponding action list is
\* returned.
C9_NilTreatedAsEmpty ==
    pc = "returned" =>
        /\ ~panicked
        /\ \E lo \in RangeOrders(AsEmpty(localManifest).Files),
              ro \in RangeOrders(AsEmpty(remoteManifest).Files) :
              actions = ComputeSyncActions(AsEmpty(localManifest),
                                           AsEmpty(remoteManifest),
                                           AsEmpty(lastKnownManifest), lo, ro)

-----------------------------------------------------------------------------
(* Properties of the runs, checked under Spec.                             *)

\* the action list a run started in the current state would compute
Reconciliation ==
    LET lm == BuildLocalManifest(fs, now)
        rm == RemoteManifest(bucket)
        km == LoadManifest(fs).Manifest
    IN  ComputeSyncActions(lm, rm, km, AnOrder(lm.Files), AnOrder(rm.Files))

\* C2 as stated: once a path was recorded in the persisted manifest and the
\* user removed the local file without recreating it, every later
\* reconciliation yields skip for the path while the remote object exists, so
\* no later run downloads it again.
C2_LocalDeletionHonoured ==
    (AtRest /\ ~LoadManifest(fs).Err) =>
        \A p \in removed :
            (p \notin DOMAIN fs /\ p \in DOMAIN bucket) =>
                \A i \in DOMAIN Reconciliation :
                    Reconciliation[i].RelativePath = p =>
                        Reconciliation[i].Operation = SyncOpSkip

\* C10 as stated: after a run has applied its actions and saved the manifest,
\* a second reconciliation with no change in between yields only skip actions.
C10_SecondReconciliationAllSkip ==
    (pc = "done" /\ result = "synced") =>
        \A i \in DOMAIN Reconciliation :
            Reconciliation[i].Operation = SyncOpSkip

\* the paths the list transfers with the given operation
Transferred(acts, operation) ==
    {acts[i].RelativePath : i \in {j \in DOMAIN acts : acts[j].Operation = operation}}

\* the bucket after every upload of the list, the directory after every
\* download of it (a list holds a path once, the order does not matter)
AfterUploads(files, objects, acts, t) ==
    [k \in DOMAIN objects \cup Transferred(acts, SyncOpUpload) |->
        IF k \in Transferred(acts, SyncOpUpload)
        THEN UploadFile(objects, files, k, t)[k] ELSE objects[k]]

AfterDownloads(files, objects, acts, t) ==
    [p \in DOMAIN files \cup Transferred(acts, SyncOpDownload) |->
        IF p \in Transferred(acts, SyncOpDownload)
        THEN DownloadFile(files, objects, p, t)[p] ELSE files[p]]

\* C11 as stated: with an empty last_known (no manifest persisted), applying
\* every upload and download that ComputeSyncActions returns and scanning
\* both sides again gives inventories with the same path set and equal
\* fingerprints on every shared path.
C11_Convergence ==
    (AtRest /\ ManifestRel \notin DOMAIN fs) =>
        LET rescanned == ScanDirectoryWithInfo(
                             AfterDownloads(fs, bucket, Reconciliation, now))
            relisted == ListObjects(
                             AfterUploads(fs, bucket, Reconciliation, now))
        IN  /\ DOMAIN rescanned = DOMAIN relisted
            /\ \A p \in DOMAIN rescanned \cap DOMAIN relisted :
                rescanned[p].Checksum = relisted[p].Checksum

\* the manifest file of a directory: the set holding it, or the empty set
ManifestFile(files) ==
    IF ManifestRel \in DOMAIN files THEN {files[ManifestRel]} ELSE {}

\* C12 as stated: in a push or pull run the manifest is written only by the
\* save, after every transfer of the run has succeeded; when a transfer
\* fails the run is over with an error and the persisted manifest is what
\* the run loaded when it began.
C12_ManifestUntouchedUnlessAllTransferred ==
    [][edits' = edits =>
        /\ ManifestFile(fs') # ManifestFile(fs) =>
              (pc = "save" /\ Transfers(actions, cmd) \subseteq done)
        /\ result' = "transfer failed" =>
              /\ pc' = "done"
              /\ LoadManifest(fs') =
                     [Err |-> FALSE, Manifest |-> lastKnownManifest']
      ]_vars

\* C13 as stated: however a save ends, also when the process is terminated
\* within it, a later LoadManifest finds the complete previous manifest or
\* the complete new one, never an empty or partly written file.
C13_SaveIsAtomic ==
    [][pc = "save" =>
        /\ ~LoadManifest(fs').Err
        /\ \/ ManifestFile(fs') = ManifestFile(fs)
           \/ ManifestFile(fs') =
                  ManifestFile(SaveManifest(fs, ManifestToSave, now + 1))
      ]_vars

\* the inventory a run has achieved when it returns: the local one for
\* push, the remote one for pull
Achieved ==
    IF cmd = "push" THEN ScanDirectoryWithInfo(fs) ELSE ListObjects(bucket)

\* C14 as stated, for the user's paths: after a run that was not a dry run
\* and in which no transfer failed, also one with nothing to transfer, the
\* persisted manifest holds the achieved inventory, path by path.
C14_ManifestHoldsAchievedInventory ==
    (pc = "done" /\ result \in {"synced", "up to date"}) =>
        LET persisted == LoadManifest(fs).Manifest.Files
        IN  \A p \in UserPaths :
                /\ p \in DOMAIN persisted <=> p \in DOMAIN Achieved
                /\ p \in DOMAIN persisted \cap DOMAIN Achieved =>
                       persisted[p].Checksum = Achieved[p].Checksum

\* the operations a reconciliation in the current state decides for path p
NowDecided(p) ==
    {Reconciliation[i].Operation :
        i \in {j \in DOMAIN Reconciliation : Reconciliation[j].RelativePath = p}}

\* C15 as stated: after a run was aborted by a failed transfer, the next
\* reconciliation decides skip for every path whose transfer had succeeded
\* and the transfer again for every path not yet transferred.
C15_RetryAfterAbort ==
    (pc = "done" /\ result = "transfer failed" /\ ~LoadManifest(fs).Err) =>
        \A j \in Transfers(actions, cmd) :
            NowDecided(actions[j].RelativePath) =
                IF j \in done THEN {SyncOpSkip} ELSE {TransferOp(cmd)}

\* C16: a dry run of push or pull is over when its list is counted, and no
\* step of it uploads, downloads or writes the manifest: the files of the
\* directory, the manifest among them, and the bucket are as before the run.
C16_DryRunChangesNothing ==
    [][edits' = edits =>
        /\ (dryRun \/ dryRun') => (fs' = fs /\ bucket' = bucket)
        /\ (dryRun' /\ runs' # runs) => (pc' = "done" /\ done' = {})
      ]_vars

\* C16 witness: a dry run has returned with transfers in its list.
C16_Witness ==
    /\ pc = "done" /\ result = "dry-run" /\ dryRun
    /\ Transfers(actions, cmd) # {}

\* C17: a run that cannot load the manifest, scan the root or list the
\* bucket returns that error at once: no transfer is attempted and neither
\* the manifest nor any other file or object is written.  A manifest that
\* does not parse always ends the run so.
C17_EarlyFailureTransfersNothing ==
    [][(runs' # runs) =>
        /\ LoadManifest(fs).Err => result' \in EarlyErrors
        /\ result' \in EarlyErrors =>
              /\ pc' = "done" /\ done' = {} /\ actions' = <<>>
              /\ fs' = fs /\ bucket' = bucket
      ]_vars

\* C17 witness: a run has returned the load error on a manifest that does
\* not parse, with files to transfer on either side.
C17_Witness ==
    /\ pc = "done" /\ result = "error loading manifest"
    /\ LoadManifest(fs).Err
    /\ DOMAIN fs \cap UserPaths # {}

\* the actions of the list for path p
ListedFor(acts, p) == {acts[i] : i \in {j \in DOMAIN acts : acts[j].RelativePath = p}}

\* C18: on a root without a persisted manifest LoadManifest returns, without
\* error, a manifest with an empty map that is not nil; a run started there
\* decides upload "new local file" for every local-only path and download
\* "new remote file" for every remote-only path.
C18_FirstRunFromEmptySnapshot ==
    [][ManifestRel \notin DOMAIN fs =>
        /\ ~LoadManifest(fs).Err
        /\ ~LoadManifest(fs).Manifest.IsNil
        /\ ~LoadManifest(fs).Manifest.FilesNil
        /\ DOMAIN LoadManifest(fs).Manifest.Files = {}
        /\ (runs' # runs /\ result' \notin EarlyErrors) =>
              /\ lastKnownManifest' = LoadManifest(fs).Manifest
              /\ \A p \in DOMAIN localManifest'.Files \ DOMAIN remoteManifest'.Files :
                    ListedFor(actions', p) =
                        {SyncAction(SyncOpUpload, localManifest'.Files[p], p,
                                    "new local file")}
              /\ \A p \in DOMAIN remoteManifest'.Files \ DOMAIN localManifest'.Files :
                    ListedFor(actions', p) =
                        {SyncAction(SyncOpDownload, remoteManifest'.Files[p], p,
                                    "new remote file")}
      ]_vars

\* C18 witness: the first run of a root without manifest has computed its
\* list, with a path only in the directory and another only in the bucket.
C18_Witness ==
    /\ runs = 1 /\ pc \in {"transfer", "done"} /\ result \notin EarlyErrors
    /\ ~lastKnownManifest.IsNil /\ DOMAIN lastKnownManifest.Files = {}
    /\ lastKnownManifest.LastSync = 0
    /\ \E p, q \in UserPaths :
        /\ p \in DOMAIN localManifest.Files \ DOMAIN remoteManifest.Files
        /\ q \in DOMAIN remoteManifest.Files \ DOMAIN localManifest.Files

C20_NothingDeleted ==
    [][edits' = edits =>
        /\ DOMAIN fs \subseteq DOMAIN fs'
        /\ DOMAIN bucket \subseteq DOMAIN bucket'
        /\ \A i \in DOMAIN actions' :
            /\ actions'[i].Operation \in
                   {SyncOpUpload, SyncOpDownload, SyncOpSkip}
            /\ actions'[i].RelativePath \in
                   DOMAIN localManifest'.Files \ DOMAIN remoteManifest'.Files
               => actions'[i].Operation = SyncOpUpload
      ]_vars

\* C20 witness: a push has uploaded again a file whose object had been
\* deleted from the bucket, and both exist.
C20_Witness ==
    /\ pc = "done" /\ result = "synced" /\ cmd = "push"
    /\ \E j \in done :
        /\ actions[j].Reason = "deleted remotely, exists locally"
        /\ actions[j].RelativePath \in DOMAIN fs \cap DOMAIN bucket

-----------------------------------------------------------------------------
(* Further properties of ComputeSyncActions, checked under SpecCompute.    *)

\* C24: a path on both sides with differing checksums, changed on both sides
\* or absent from last_known, whose two modification times are equal is
\* decided by the download of the remote record, whatever the order in
\* which the maps are visited.
C24_TieGoesToRemote ==
    Returned =>
        \A p \in Paths :
            (BothChanged(p) /\ LocalFiles[p].ModTime = RemoteFiles[p].ModTime) =>
                Decided(p, SyncOpDownload, RemoteFiles[p],
                        IF Known(p) THEN "remote file newer (conflict resolution)"
                        ELSE "remote file newer")

\* C24 witness: a tie on a path of last_known and a tie on a path that is
\* not in it were decided.
C24_Witness ==
    /\ Returned
    /\ \E p, q \in Paths :
        /\ BothChanged(p) /\ Known(p)
        /\ LocalFiles[p].ModTime = RemoteFiles[p].ModTime
        /\ BothChanged(q) /\ ~Known(q)
        /\ LocalFiles[q].ModTime = RemoteFiles[q].ModTime

\* the reasons of the branch that compares the modification times of a path
\* of last_known
ConflictReasons ==
    {"local file newer (conflict resolution)",
     "remote file newer (conflict resolution)"}

\* C29: for a path on both sides and in last_known whose checksums differ,
\* the branch that compares the times is taken only when the local and the
\* remote checksum both differ from the last known one; the two are never
\* both equal to it, and a path changed on one side only is decided without
\* the times.
C29_ConflictOnlyWhenBothChanged ==
    Returned =>
        \A p \in Paths :
            (OnBothSides(p) /\ Known(p)
             /\ LocalFiles[p].Checksum # RemoteFiles[p].Checksum) =>
                LET localChanged ==
                        LocalFiles[p].Checksum # LastKnownFiles[p].Checksum
                    remoteChanged ==
                        RemoteFiles[p].Checksum # LastKnownFiles[p].Checksum
                IN  /\ localChanged \/ remoteChanged
                    /\ (\E i \in ActionsOf(p) : actions[i].Reason \in ConflictReasons)
                           <=> (localChanged /\ remoteChanged)

\* C29 witness: a list decides one known path by the times and another,
\* changed on the local side only and older there, without them.
C29_Witness ==
    /\ Returned
    /\ \E p, q \in Paths :
        /\ BothChanged(p) /\ Known(p)
        /\ \E i \in ActionsOf(p) : actions[i].Reason \in ConflictReasons
        /\ OnBothSides(q) /\ Known(q)
        /\ LocalFiles[q].Checksum # LastKnownFiles[q].Checksum
        /\ RemoteFiles[q].Checksum = LastKnownFiles[q].Checksum
        /\ RemoteFiles[q].ModTime > LocalFiles[q].ModTime
        /\ \A i \in ActionsOf(q) : actions[i].Reason = "local file modified"

-----------------------------------------------------------------------------
(* Further properties of the runs, checked under Spec.                     *)

\* C27 as stated: a file whose bytes are the same in the directory and in
\* the bucket has the same fingerprint in the local and in the remote
\* inventory, and the reconciliation decides skip "files identical" for it.
C27_SameBytesSameFingerprint ==
    (AtRest /\ ~LoadManifest(fs).Err) =>
        \A p \in DOMAIN ScanDirectoryWithInfo(fs) \cap DOMAIN ListObjects(bucket) :
            fs[p].Content = bucket[p].Content =>
                /\ ScanDirectoryWithInfo(fs)[p].Checksum =
                       ListObjects(bucket)[p].Checksum
                /\ \A a \in ListedFor(Reconciliation, p) :
                       a.Operation = SyncOpSkip /\ a.Reason = "files identical"

\* the path lies under the directory that holds the manifest
UnderS3Sync(p) == Len(p) > 0 /\ p[1] = S3SyncDir

\* C26 as stated: the local inventory a run builds holds no path under
\* .s3sync, whatever manifests earlier runs have saved, and the list of the
\* run holds no upload of such a path.
C26_ManifestInvisible ==
    ~localManifest.IsNil =>
        /\ \A p \in DOMAIN localManifest.Files : ~UnderS3Sync(p)
        /\ \A i \in DOMAIN actions :
            UnderS3Sync(actions[i].RelativePath) =>
                actions[i].Operation # SyncOpUpload

\* the positions of the list with the given operation
Positions(acts, operation) == {j \in DOMAIN acts : acts[j].Operation = operation}

\* C28: a push executes uploads only, all of them when it completes, and
\* writes no local file but the manifest; a pull executes downloads only,
\* all of them when it completes, and writes no object; the actions of the
\* other direction stay unexecuted.
C28_OneDirection ==
    [][edits' = edits =>
        /\ cmd' = "push" =>
            /\ \A p \in DOMAIN fs' \ {ManifestRel} :
                   p \in DOMAIN fs /\ fs'[p] = fs[p]
            /\ done' \subseteq Positions(actions', SyncOpUpload)
            /\ pc' \in {"transfer", "save"} =>
                   Positions(actions', SyncOpUpload) # {}
            /\ result' \in {"synced", "up to date"} =>
                   done' = Positions(actions', SyncOpUpload)
            /\ bucket' # bucket =>
                   \E j \in done' \ done :
                       bucket' = UploadFile(bucket, fs, actions[j].RelativePath, now)
        /\ cmd' = "pull" =>
            /\ bucket' = bucket
            /\ done' \subseteq Positions(actions', SyncOpDownload)
            /\ pc' \in {"transfer", "save"} =>
                   Positions(actions', SyncOpDownload) # {}
            /\ result' \in {"synced", "up to date"} =>
                   done' = Positions(actions', SyncOpDownload)
      ]_vars

\* C28 witness: a push has completed its uploads and left a download of its
\* list unexecuted, the file of that download is not in the directory.
C28_Witness ==
    /\ pc = "done" /\ result = "synced" /\ cmd = "push"
    /\ done # {}
    /\ \E i \in Positions(actions, SyncOpDownload) :
        i \notin done /\ actions[i].RelativePath \notin DOMAIN fs

\* C25 as stated: a dry run leaves the local file system as it is, it makes
\* no file and no directory, also when the directory a pull is to fill does
\* not exist yet.
C25_DryRunCreatesNothing ==
    [][(edits' = edits /\ (dryRun \/ dryRun')) =>
            (DOMAIN fs' = DOMAIN fs /\ dirs' = dirs)
      ]_vars

-----------------------------------------------------------------------------
(* SpecInventory: push and pull runs on directories and buckets that hold  *)
(* hidden files and files named by the exclusion patterns.                 *)

\* .DS_Store, Thumbs.db and .git/config
DSStorePath == << <<".", "DS_Store">> >>
ThumbsPath == << <<"T", "humbs.db">> >>
GitConfigPath == << <<".", "git">>, <<"c", "onfig">> >>

\* the name that stands for any name in a pattern
Star == <<"*", "">>

\* the default of sync.exclude_files: .DS_Store, Thumbs.db, .git/*
ExcludeFiles == {DSStorePath, ThumbsPath, << <<".", "git">>, Star >>}

\* what the directory and the bucket may hold when the runs begin
LocalChoices == {PathA, DSStorePath, ThumbsPath, GitConfigPath}
RemoteChoices == {PathA, DSStorePath}

InitInventory ==
    /\ localManifest = NilManifest
    /\ remoteManifest = NilManifest
    /\ lastKnownManifest = NilManifest
    /\ actions = <<>>
    /\ panicked = FALSE
    /\ pc = "idle"
    /\ \E S \in SUBSET LocalChoices :
        /\ fs = [p \in S |-> File(BytesContent(<<1>>), 1)]
        /\ dirs = UNION {MkdirAll({}, Dir(p)) : p \in S} \cup MkdirAll({}, <<>>)
    /\ \E K \in SUBSET RemoteChoices :
        bucket = [k \in K |-> Object(BytesContent(<<2, 2>>), 1)]
    /\ now = 1
    /\ cmd = "none" /\ dryRun = FALSE /\ done = {} /\ result = "none"
    /\ removed = {} /\ edits = 0 /\ runs = 0
    /\ buckets = (BucketName :> Settings(TRUE, TRUE)) /\ creating = ""

NextInventory ==
    \/ PushStart
    \/ PullStart
    \/ UploadOk
    \/ DownloadOk
    \/ SaveOk

SpecInventory == InitInventory /\ [][NextInventory]_vars

\* a pattern names a path when it fits the last names of the path, name by
\* name, Star fitting any name
Fits(pattern, path) ==
    /\ Len(pattern) <= Len(path)
    /\ \A k \in 1..Len(pattern) :
        LET name == path[Len(path) - Len(pattern) + k]
        IN  pattern[k] = Star \/ pattern[k] = name

Excluded(path) == \E pattern \in ExcludeFiles : Fits(pattern, path)

\* C21 as stated: the local and the remote inventory of a run hold no path
\* whose last name begins with '.', and the list of the run holds no action
\* for such a path.
C21_NoHiddenPathInInventories ==
    ~localManifest.IsNil =>
        /\ \A p \in DOMAIN localManifest.Files \cup DOMAIN remoteManifest.Files :
            ~IsHidden(p)
        /\ \A i \in DOMAIN actions : ~IsHidden(actions[i].RelativePath)

\* C22 as stated: the local inventory of a run holds no path named by an
\* exclusion pattern, the list of the run holds no upload of such a path,
\* and no run puts one into the bucket.
C22_NoExcludedPathUploaded ==
    /\ ~localManifest.IsNil =>
        /\ \A p \in DOMAIN localManifest.Files : ~Excluded(p)
        /\ \A i \in DOMAIN actions :
            Excluded(actions[i].RelativePath) =>
                actions[i].Operation # SyncOpUpload
    /\ \A k \in DOMAIN bucket : Excluded(k) => k \in RemoteChoices

-----------------------------------------------------------------------------
(* SpecCreateBucket: the create-bucket command, one S3 call at a time.     *)

\* the names create-bucket is called with
BucketNames == {BucketName, "my-logs", "my-backup"}

InitCreateBucket ==
    /\ localManifest = NilManifest
    /\ remoteManifest = NilManifest
    /\ lastKnownManifest = NilManifest
    /\ actions = <<>>
    /\ panicked = FALSE
    /\ pc = "idle"
    /\ fs = <<>> /\ dirs = {} /\ bucket = <<>> /\ now = 0
    /\ cmd = "none" /\ dryRun = FALSE /\ done = {} /\ result = "none"
    /\ removed = {} /\ edits = 0 /\ runs = 0
    /\ buckets = <<>> /\ creating = ""

\* what create-bucket never touches
createFrame == <<computeVars, dryRun, done, worldVars, historyVars>>

\* Client.CreateBucket up to the CreateBucket call: HeadBucket fails, or the
\* bucket exists, or the call fails, or the bucket is made.  A bucket never
\* has versioning when it is made; whether it is encrypted then is the
\* default of the service.
CreateBucketStart ==
    /\ AtRest
    /\ \E name \in BucketNames, headErr, createErr, encrypted \in BOOLEAN :
        /\ creating' = name
        /\ IF headErr
           THEN result' = "error checking bucket" /\ pc' = "done"
                /\ UNCHANGED buckets
           ELSE IF name \in DOMAIN buckets
           THEN result' = "bucket already exists" /\ pc' = "done"
                /\ UNCHANGED buckets
           ELSE IF createErr
           THEN result' = "failed to create bucket" /\ pc' = "done"
                /\ UNCHANGED buckets
           ELSE /\ buckets' = Put(buckets, name, Settings(FALSE, encrypted))
                /\ result' = "running" /\ pc' = "versioning"
    /\ cmd' = "create-bucket"
    /\ UNCHANGED createFrame

\* PutBucketVersioning succeeds
VersioningOk ==
    /\ pc = "versioning"
    /\ buckets' = [buckets EXCEPT ![creating].Versioning = TRUE]
    /\ pc' = "encryption"
    /\ UNCHANGED <<createFrame, cmd, result, creating>>

\* PutBucketVersioning fails and CreateBucket returns the error
VersioningFails ==
    /\ pc = "versioning"
    /\ pc' = "done" /\ result' = "failed to enable versioning"
    /\ UNCHANGED <<createFrame, cmd, bucketVars>>

\* PutBucketEncryption succeeds and CreateBucket returns
EncryptionOk ==
    /\ pc = "encryption"
    /\ buckets' = [buckets EXCEPT ![creating].Encryption = TRUE]
    /\ pc' = "done" /\ result' = "bucket created"
    /\ UNCHANGED <<createFrame, cmd, creating>>

\* PutBucketEncryption fails and CreateBucket returns the error
EncryptionFails ==
    /\ pc = "encryption"
    /\ pc' = "done" /\ result' = "failed to enable encryption"
    /\ UNCHANGED <<createFrame, cmd, bucketVars>>

NextCreateBucket ==
    \/ CreateBucketStart
    \/ VersioningOk
    \/ VersioningFails
    \/ EncryptionOk
    \/ EncryptionFails

SpecCreateBucket == InitCreateBucket /\ [][NextCreateBucket]_vars

\* C23 as stated: whenever create-bucket is over, with or without an error,
\* every bucket it has made has versioning enabled and AES256 encryption
\* configured.
C23_CreatedBucketsAreSecured ==
    AtRest =>
        \A b \in DOMAIN buckets :
            buckets[b].Versioning /\ buckets[b].Encryption

====
